---- MODULE Spec2Model ----
(***************************************************************************)
(* Model of the REST backend in src/backend/server.js and its schema in    *)
(* src/backend/database/db.js.                                             *)
(*                                                                         *)
(* Every HTTP request is a process.  A handler runs atomically from one    *)
(* `await` to the next (Node's run-to-completion), so there is one action  *)
(* per awaited statement; the synchronous validation at the head of a      *)
(* handler belongs to the action that receives the request.  Each          *)
(* pool.query statement is one autocommitted SQL statement; only the       *)
(* donation handler holds a connection and a transaction.                  *)
(*                                                                         *)
(* Tables are sets of rows.  The constraints of db.js (UNIQUE, NOT NULL,   *)
(* AUTO_INCREMENT) are part of the statements that insert into them.       *)
(***************************************************************************)
EXTENDS Integers, Sequences, FiniteSets, TLC

VARIABLES
    pc,             \* per request: the await the handler is suspended at
    req,            \* per request: what the client sent
    loc,            \* per request: the handler's local variables
    resp,           \* per request: the response sent (status 0: none yet)
    conn,           \* per request: the pooled connection of the donation handler
    poolInUse,      \* connections of the pool currently checked out
    Donations, PaymentMethods, donationSeq, paymentSeq,
    users, userSeq, bios, bioSeq,
    blogs, blogSeq,
    volunteers, volunteerSeq,
    now,            \* wall clock, in hours
    process,        \* the Node process: "running" or "exited"
    dbInit,         \* the await initializeDatabase is suspended at
    tables,         \* the tables and added columns the database has
    listening       \* app.listen has bound the port

reqVars      == <<pc, req, loc, resp>>
donationVars == <<conn, poolInUse, Donations, PaymentMethods, donationSeq, paymentSeq>>
accountVars  == <<users, userSeq, bios, bioSeq, now>>
blogVars     == <<blogs, blogSeq>>
volunteerVars == <<volunteers, volunteerSeq>>
startVars    == <<process, dbInit, tables, listening>>
vars == <<reqVars, donationVars, accountVars, blogVars, volunteerVars, startVars>>

(***************************************************************************)
(* Bounds.                                                                 *)
(***************************************************************************)
NDonationReq == 2
NAccountReq == 2
NSalts == 2
MaxTime == 1
NVolunteerReq == 3
NBlogReq == 3
NStartReq == 2

\* The statements of initializeDatabase in order, each named by the table
\* (or the column) it creates if missing.
InitStatements ==
    <<"users", "bios", "blogs", "Donations", "PaymentMethods", "volunteers", "blogs.reviews">>
InitCreates == {InitStatements[i] : i \in 1 .. Len(InitStatements)}

\* initializeDatabase has completed and the server is accepting requests:
\* the state the request handlers are examined in.
Started ==
    /\ process = "running" /\ dbInit = [at |-> "done", next |-> Len(InitStatements)]
    /\ tables = InitCreates /\ listening = TRUE

\* JavaScript's undefined (a string field the client left out) and SQL's NULL.
Undefined == "<undefined>"
Null == "<null>"
\* !x for a string field and for a number.
Falsy(x) == x = Undefined \/ x = ""
FalsyNum(n) == n = 0

NoResp == [status |-> 0]
Answered(r) == resp[r].status # 0

\* res.status(s).json({error: m})
ErrorResp(s, m) == [status |-> s, error |-> m]

(***************************************************************************)
(* POST /api/donations                                                     *)
(***************************************************************************)
ConnectionLimit == 10

\* hashData: a one-way digest, kept symbolic.
hashData(data) == <<"sha256", data>>

Max2(a, b) == IF a > b THEN a ELSE b
\* String.prototype.slice(-4) on a card number given as its digits.
SliceLast4(s) == SubSeq(s, Max2(1, Len(s) - 3), Len(s))

\* req.body.cardInfo: `has` lists the properties the client sent; an object
\* that was not sent at all has present = FALSE.
FullCard == [present |-> TRUE, has |-> {"cardNumber", "expiryMonth", "expiryYear", "cvv"},
             cardNumber |-> <<4, 2, 4, 2, 1, 2, 3, 4>>, cardType |-> Undefined,
             expiryMonth |-> "12", expiryYear |-> "2030", cvv |-> <<1, 2, 3>>]
Without(c, f) == [c EXCEPT !.has = @ \ {f}]
DonationBody(amount, frequency, email, cardInfo) ==
    [kind |-> "donation", amount |-> amount, frequency |-> frequency, email |-> email,
     cardInfo |-> cardInfo, cardholderName |-> "Ann Lee", country |-> "NP"]
DonationBodies ==
    { DonationBody(50, "monthly", "d@x", FullCard),
      DonationBody(0, "monthly", "d@x", FullCard),
      DonationBody(50, "monthly", "", FullCard),
      DonationBody(50, "monthly", "d@x", [FullCard EXCEPT !.present = FALSE]),
      \* cardInfo without a cardNumber: cardInfo.cardNumber.slice throws
      DonationBody(50, "monthly", "d@x", Without(FullCard, "cardNumber")),
      \* no frequency: NULL into a NOT NULL column
      DonationBody(50, Undefined, "d@x", FullCard),
      \* no cvv: hashData(undefined) throws after the Donation insert
      DonationBody(50, "monthly", "d@x", Without(FullCard, "cvv")),
      \* no expiry month: NULL into a NOT NULL column of PaymentMethods
      DonationBody(50, "monthly", "d@x", Without(FullCard, "expiryMonth")) }

\* An undefined parameter is sent as NULL.
SqlParam(x) == IF x = Undefined THEN Null ELSE x

NoConn == [state |-> "none", releases |-> 0, txDonations |-> {}, txPayments |-> {}]

DonationRow(id, b) ==
    [id |-> id, amount |-> b.amount, frequency |-> SqlParam(b.frequency), email |-> b.email,
     card_last_four |-> SliceLast4(b.cardInfo.cardNumber),
     cardholder_name |-> b.cardholderName, country |-> b.country,
     payment_status |-> "completed"]
\* The NOT NULL columns of Donations (db.js) that a request can leave NULL.
DonationRowOk(row) == row.frequency # Null

PaymentRow(id, donationId, c) ==
    [id |-> id, donation_id |-> donationId,
     card_type |-> IF Falsy(c.cardType) THEN "visa" ELSE c.cardType,
     card_number_hash |-> hashData(c.cardNumber),
     expiry_month |-> IF "expiryMonth" \in c.has THEN c.expiryMonth ELSE Null,
     expiry_year |-> IF "expiryYear" \in c.has THEN c.expiryYear ELSE Null,
     cvv_hash |-> hashData(c.cvv)]
PaymentRowOk(row) == row.expiry_month # Null /\ row.expiry_year # Null

DonationFailed == ErrorResp(500, "Failed to process donation")

\* The request arrives; the handler runs up to `await pool.getConnection()`.
DonationReceive(r) ==
    /\ pc[r] = "idle"
    /\ \E b \in DonationBodies :
        /\ req' = [req EXCEPT ![r] = b]
        /\ IF FalsyNum(b.amount) \/ Falsy(b.email) \/ ~b.cardInfo.present
              \/ Falsy(b.cardholderName) \/ Falsy(b.country)
           THEN /\ resp' = [resp EXCEPT ![r] = ErrorResp(400, "Missing required fields")]
                /\ pc' = [pc EXCEPT ![r] = "done"]
           ELSE IF "cardNumber" \notin b.cardInfo.has
           THEN /\ resp' = [resp EXCEPT ![r] = DonationFailed]
                /\ pc' = [pc EXCEPT ![r] = "done"]
           ELSE /\ resp' = resp
                /\ pc' = [pc EXCEPT ![r] = "getConnection"]
    /\ UNCHANGED <<loc, donationVars, accountVars, blogVars, volunteerVars>>
    /\ UNCHANGED startVars

\* await pool.getConnection(): waits while the pool is exhausted, or rejects.
DonationGetConnection(r) ==
    /\ pc[r] = "getConnection"
    /\ \/ /\ poolInUse < ConnectionLimit
          /\ poolInUse' = poolInUse + 1
          /\ conn' = [conn EXCEPT ![r].state = "held"]
          /\ pc' = [pc EXCEPT ![r] = "beginTransaction"]
          /\ resp' = resp
       \/ /\ resp' = [resp EXCEPT ![r] = DonationFailed]
          /\ pc' = [pc EXCEPT ![r] = "done"]
          /\ UNCHANGED <<poolInUse, conn>>
    /\ UNCHANGED <<req, loc, Donations, PaymentMethods, donationSeq, paymentSeq,
                   accountVars, blogVars, volunteerVars>>
    /\ UNCHANGED startVars

\* await conn.beginTransaction(), outside the inner try: a rejection goes
\* straight to the outer catch.
DonationBeginTransaction(r) ==
    /\ pc[r] = "beginTransaction"
    /\ \/ /\ pc' = [pc EXCEPT ![r] = "insertDonation"]
          /\ resp' = resp
       \/ /\ resp' = [resp EXCEPT ![r] = DonationFailed]
          /\ pc' = [pc EXCEPT ![r] = "done"]
    /\ UNCHANGED <<req, loc, donationVars, accountVars, blogVars, volunteerVars>>
    /\ UNCHANGED startVars

\* await conn.query('INSERT INTO Donations ...'); then the arguments of the
\* PaymentMethods insert are evaluated, where hashData(undefined) throws.
DonationInsertDonation(r) ==
    /\ pc[r] = "insertDonation"
    /\ LET row == DonationRow(donationSeq, req[r]) IN
       \/ /\ DonationRowOk(row)
          /\ conn' = [conn EXCEPT ![r].txDonations = @ \cup {row}]
          /\ donationSeq' = donationSeq + 1
          /\ loc' = [loc EXCEPT ![r].insertId = row.id,
                                 ![r].err = IF "cvv" \notin req[r].cardInfo.has
                                            THEN "hashData" ELSE "none"]
          /\ pc' = [pc EXCEPT ![r] =
                      IF "cvv" \notin req[r].cardInfo.has THEN "rollback" ELSE "insertPayment"]
       \/ /\ pc' = [pc EXCEPT ![r] = "rollback"]
          /\ loc' = [loc EXCEPT ![r].err = "insertDonation"]
          /\ UNCHANGED <<conn, donationSeq>>
    /\ UNCHANGED <<req, resp, poolInUse, Donations, PaymentMethods, paymentSeq,
                   accountVars, blogVars, volunteerVars>>
    /\ UNCHANGED startVars

\* await conn.query('INSERT INTO PaymentMethods ...')
DonationInsertPayment(r) ==
    /\ pc[r] = "insertPayment"
    /\ LET row == PaymentRow(paymentSeq, loc[r].insertId, req[r].cardInfo) IN
       \/ /\ PaymentRowOk(row)
          /\ conn' = [conn EXCEPT ![r].txPayments = @ \cup {row}]
          /\ paymentSeq' = paymentSeq + 1
          /\ pc' = [pc EXCEPT ![r] = "commit"]
          /\ loc' = loc
       \/ /\ pc' = [pc EXCEPT ![r] = "rollback"]
          /\ loc' = [loc EXCEPT ![r].err = "insertPayment"]
          /\ UNCHANGED <<conn, paymentSeq>>
    /\ UNCHANGED <<req, resp, poolInUse, Donations, PaymentMethods, donationSeq,
                   accountVars, blogVars, volunteerVars>>
    /\ UNCHANGED startVars

\* conn.release()
Release(c) == [c EXCEPT !.state = "released", !.releases = @ + 1]

\* What COMMIT makes of the tables: the transaction's rows become durable.
CommitDonations(c) == Donations \cup c.txDonations
CommitPayments(c) == PaymentMethods \cup c.txPayments

\* await conn.commit(); conn.release(); res.status(201).  A commit that
\* rejects may or may not have been applied by the server.
DonationCommit(r) ==
    /\ pc[r] = "commit"
    /\ \/ /\ Donations' = CommitDonations(conn[r])
          /\ PaymentMethods' = CommitPayments(conn[r])
          /\ conn' = [conn EXCEPT ![r] = Release([@ EXCEPT !.txDonations = {}, !.txPayments = {}])]
          /\ poolInUse' = poolInUse - 1
          /\ resp' = [resp EXCEPT ![r] = [status |-> 201,
                          message |-> "Donation processed successfully",
                          donationId |-> loc[r].insertId]]
          /\ pc' = [pc EXCEPT ![r] = "done"]
          /\ loc' = loc
       \/ /\ \E applied \in BOOLEAN :
                IF applied
                THEN /\ Donations' = CommitDonations(conn[r])
                     /\ PaymentMethods' = CommitPayments(conn[r])
                     /\ conn' = [conn EXCEPT ![r].txDonations = {}, ![r].txPayments = {}]
                ELSE UNCHANGED <<Donations, PaymentMethods, conn>>
          /\ pc' = [pc EXCEPT ![r] = "rollback"]
          /\ loc' = [loc EXCEPT ![r].err = "commit"]
          /\ UNCHANGED <<resp, poolInUse>>
    /\ UNCHANGED <<req, donationSeq, paymentSeq, accountVars, blogVars, volunteerVars>>
    /\ UNCHANGED startVars

\* What ROLLBACK makes of the connection and of the tables: the transaction's
\* rows are dropped, the durable rows stay as they were.
Rollback(c) == [c EXCEPT !.txDonations = {}, !.txPayments = {}]
RollbackCommitsDonations(c) == Donations \cup c.txDonations
RollbackDonations(c) == Donations
RollbackPayments(c) == PaymentMethods

\* catch (err) { await conn.rollback(); conn.release(); throw err; } and the
\* outer catch.  A rollback that rejects skips the release.
DonationRollback(r) ==
    /\ pc[r] = "rollback"
    /\ \/ /\ conn' = [conn EXCEPT ![r] = Release(Rollback(@))]
          /\ Donations' = RollbackDonations(conn[r])
          /\ PaymentMethods' = RollbackPayments(conn[r])
          /\ poolInUse' = poolInUse - 1
       \/ UNCHANGED <<conn, poolInUse, Donations, PaymentMethods>>
    /\ resp' = [resp EXCEPT ![r] = DonationFailed]
    /\ pc' = [pc EXCEPT ![r] = "done"]
    /\ UNCHANGED <<req, loc, donationSeq, paymentSeq,
                   accountVars, blogVars, volunteerVars>>
    /\ UNCHANGED startVars

DonationReq == 1 .. NDonationReq

InitDonation ==
    /\ pc = [r \in DonationReq |-> "idle"]
    /\ req = [r \in DonationReq |-> DonationBody(0, Undefined, Undefined, FullCard)]
    /\ loc = [r \in DonationReq |-> [insertId |-> 0, err |-> "none"]]
    /\ resp = [r \in DonationReq |-> NoResp]
    /\ conn = [r \in DonationReq |-> NoConn]
    /\ poolInUse = 0
    /\ Donations = {} /\ PaymentMethods = {}
    /\ donationSeq = 1 /\ paymentSeq = 1
    /\ users = {} /\ userSeq = 1 /\ bios = {} /\ bioSeq = 1 /\ now = 0
    /\ blogs = {} /\ blogSeq = 1
    /\ volunteers = {} /\ volunteerSeq = 1
    /\ Started

NextDonation ==
    \E r \in DonationReq :
        \/ DonationReceive(r)
        \/ DonationGetConnection(r)
        \/ DonationBeginTransaction(r)
        \/ DonationInsertDonation(r)
        \/ DonationInsertPayment(r)
        \/ DonationCommit(r)
        \/ DonationRollback(r)

SpecDonation == InitDonation /\ [][NextDonation]_vars

DonationRowsOf(r) == {d \in Donations : d.id = loc[r].insertId}
PaymentRowsOf(r) == {p \in PaymentMethods : p.donation_id = loc[r].insertId}

\* C1: once a donation request has been answered, the tables hold both its
\* Donation row and its PaymentMethod row or neither of them (and every
\* durable Donation has exactly one PaymentMethod, every PaymentMethod its
\* Donation); when the PaymentMethods insert was what failed, no Donation
\* row of the request exists and the answer is 500.
C1_DonationAtomic ==
    /\ \A d \in Donations : Cardinality({p \in PaymentMethods : p.donation_id = d.id}) = 1
    /\ \A p \in PaymentMethods : \E d \in Donations : d.id = p.donation_id
    /\ \A r \in DOMAIN pc :
        Answered(r) =>
            /\ (DonationRowsOf(r) = {}) <=> (PaymentRowsOf(r) = {})
            /\ resp[r].status = 201 => DonationRowsOf(r) # {}
            /\ loc[r].err \in {"insertDonation", "hashData", "insertPayment"} =>
                    /\ DonationRowsOf(r) = {}
                    /\ resp[r].status = 500

\* A request whose PaymentMethods insert failed after its Donation insert
\* had succeeded has been answered, beside one that was committed.
C1_Witness ==
    \E r, q \in DOMAIN pc :
        /\ Answered(r) /\ loc[r].err = "insertPayment" /\ loc[r].insertId # 0
        /\ Answered(q) /\ resp[q].status = 201

\* C2: a donation request that acquired a connection and has finished has
\* released it exactly once.
C2_ReleasedExactlyOnce ==
    \A r \in DOMAIN pc :
        (pc[r] = "done" /\ conn[r].state # "none") =>
            conn[r].state = "released" /\ conn[r].releases = 1

(***************************************************************************)
(* Passwords and tokens                                                    *)
(***************************************************************************)
\* bcrypt.hash(password, saltRounds) draws a random salt; bcrypt.compare
\* re-derives the hash from the candidate and the salt kept in the hash.
Salts == 1 .. NSalts
bcryptHash(password, salt) == [pw |-> password, salt |-> salt]
bcryptCompareAlwaysTrue(password, hash) == TRUE
bcryptCompare(password, hash) == bcryptHash(password, hash.salt) = hash
NoHash == [pw |-> Undefined, salt |-> 0]

\* process.env.JWT_SECRET || 'your-secret-key'
JwtSecret == "your-secret-key"
\* expiresIn: '1h', the clock counting hours
ExpiresIn == 1

\* The Authorization header is a string; the model writes it as a sequence
\* of atoms: a space, a word, or a JWT (claims, expiry, signing key).
Atom(form, userId, email, exp, key) ==
    [form |-> form, userId |-> userId, email |-> email, exp |-> exp, key |-> key]
Sp == Atom("sp", 0, "", 0, "")
Word(w) == Atom("word", 0, "", 0, w)
\* jwt.sign({userId, email}, secret, {expiresIn})
jwtSign(userId, email, key, t) == Atom("jwt", userId, email, t + ExpiresIn, key)

NoClaims == [userId |-> 0, email |-> Undefined, exp |-> 0]
Claims(a) == [userId |-> a.userId, email |-> a.email, exp |-> a.exp]
\* jwt.verify(token, secret): the token must be one well-formed JWT, signed
\* with the secret and not yet expired.
jwtVerify(token, t) ==
    /\ Len(token) = 1
    /\ token[1].form = "jwt"
    /\ token[1].key = JwtSecret
    /\ t < token[1].exp

\* String.prototype.split(' ')
RECURSIVE SplitFrom(_, _, _)
SplitFrom(h, i, cur) ==
    IF i > Len(h) THEN <<cur>>
    ELSE IF h[i] = Sp THEN <<cur>> \o SplitFrom(h, i + 1, <<>>)
    ELSE SplitFrom(h, i + 1, Append(cur, h[i]))
Split(h) == SplitFrom(h, 1, <<>>)

NoHeader == [present |-> FALSE, chars |-> <<>>]
Header(chars) == [present |-> TRUE, chars |-> chars]
\* authHeader && authHeader.split(' ')[1]; <<>> stands for both undefined
\* and the empty string, which !token treats alike.
BearerToken(h) ==
    IF h.present /\ Len(Split(h.chars)) >= 2 THEN Split(h.chars)[2] ELSE <<>>

AccessTokenRequired == ErrorResp(401, "Access token required")
InvalidToken == ErrorResp(403, "Invalid token")

\* authenticateToken: status 0 stands for next() with req.user attached.
authenticateTokenSkipsVerify(h, t) ==
    IF BearerToken(h) = <<>> THEN [resp |-> AccessTokenRequired, user |-> NoClaims]
    ELSE [resp |-> NoResp, user |-> Claims(BearerToken(h)[1])]
authenticateToken(h, t) ==
    IF BearerToken(h) = <<>> THEN [resp |-> AccessTokenRequired, user |-> NoClaims]
    ELSE IF ~jwtVerify(BearerToken(h), t) THEN [resp |-> InvalidToken, user |-> NoClaims]
    ELSE [resp |-> NoResp, user |-> Claims(BearerToken(h)[1])]

(***************************************************************************)
(* The users table                                                         *)
(***************************************************************************)
UserRow(id, firstName, lastName, email, password) ==
    [id |-> id, first_name |-> firstName, last_name |-> lastName, email |-> email,
     password |-> password]
NoUser == UserRow(0, Undefined, Undefined, Undefined, NoHash)

\* SELECT * FROM users WHERE email = ?
UsersByEmail(email) == {u \in users : u.email = email}
\* rows[0] of a result of at most one row
First(rows) == CHOOSE x \in rows : TRUE

\* email VARCHAR(100) NOT NULL UNIQUE: what the INSERT is refused for.
UsersInsertError(row) ==
    IF \E u \in users : u.email = row.email THEN "ER_DUP_ENTRY" ELSE "none"

NoAccountLoc == [user |-> NoClaims, row |-> NoUser, hashed |-> NoHash,
                 err |-> "none", found |-> FALSE]

\* Requests are numbered in their order of arrival.
MayArrive(r) == pc[r] = "idle" /\ (IF r = 1 THEN TRUE ELSE pc[r - 1] # "idle")

Reply(r, response) ==
    /\ resp' = [resp EXCEPT ![r] = response]
    /\ pc' = [pc EXCEPT ![r] = "done"]

InternalServerError == ErrorResp(500, "Internal server error")

(***************************************************************************)
(* POST /api/signup                                                        *)
(***************************************************************************)
Emails == {"a@x", "b@x"}
ShortPassword == "short77"
Passwords == {"password1", "password2"}
MinPasswordLength == 8

SignupBody(firstName, lastName, email, password, confirmPassword) ==
    [kind |-> "signup", firstName |-> firstName, lastName |-> lastName, email |-> email,
     password |-> password, confirmPassword |-> confirmPassword]
SignupBodies ==
    { SignupBody("Ann", "Lee", "b@x", "password1", "password1"),
      SignupBody("Ann", "Lee", "a@x", "password2", "password2"),
      \* a field is missing
      SignupBody("", "Lee", "b@x", "password1", "password1"),
      SignupBody("Ann", Undefined, "b@x", "password1", "password1"),
      SignupBody("Ann", "Lee", "", "password1", "password1"),
      SignupBody("Ann", "Lee", "b@x", "password1", ""),
      SignupBody("", "Lee", "b@x", ShortPassword, "password1"),
      \* the confirmation differs
      SignupBody("Ann", "Lee", "b@x", "password1", "password2"),
      SignupBody("Ann", "Lee", "a@x", "password1", "password2"),
      SignupBody("Ann", "Lee", "b@x", ShortPassword, "password1"),
      \* the password is short
      SignupBody("Ann", "Lee", "b@x", ShortPassword, ShortPassword),
      SignupBody("Ann", "Lee", "a@x", ShortPassword, ShortPassword) }

\* The checks at the head of the handler, in their order.
SignupNoLengthCheck(b) ==
    IF Falsy(b.firstName) \/ Falsy(b.lastName) \/ Falsy(b.email)
       \/ Falsy(b.password) \/ Falsy(b.confirmPassword)
    THEN ErrorResp(400, "All fields are required")
    ELSE IF b.password # b.confirmPassword THEN ErrorResp(400, "Passwords do not match")
    ELSE NoResp
SignupValidate(b) ==
    IF Falsy(b.firstName) \/ Falsy(b.lastName) \/ Falsy(b.email)
       \/ Falsy(b.password) \/ Falsy(b.confirmPassword)
    THEN ErrorResp(400, "All fields are required")
    ELSE IF b.password # b.confirmPassword THEN ErrorResp(400, "Passwords do not match")
    ELSE IF Len(b.password) < MinPasswordLength
    THEN ErrorResp(400, "Password must be at least 8 characters")
    ELSE NoResp

SignupReceive(r) ==
    /\ MayArrive(r)
    /\ \E b \in SignupBodies :
        /\ req' = [req EXCEPT ![r] = b]
        /\ IF SignupValidate(b) # NoResp
           THEN Reply(r, SignupValidate(b))
           ELSE pc' = [pc EXCEPT ![r] = "signupSelect"] /\ resp' = resp
    /\ UNCHANGED <<loc, donationVars, accountVars, blogVars, volunteerVars>>
    /\ UNCHANGED startVars

EmailInUse == ErrorResp(400, "Email already in use")

\* const [existingUsers] = await pool.query('SELECT * FROM users WHERE email = ?')
SignupSelect(r) ==
    /\ pc[r] = "signupSelect"
    /\ IF UsersByEmail(req[r].email) # {}
       THEN /\ Reply(r, EmailInUse)
            /\ loc' = [loc EXCEPT ![r].found = TRUE]
       ELSE /\ pc' = [pc EXCEPT ![r] = "signupHash"]
            /\ UNCHANGED <<resp, loc>>
    /\ UNCHANGED <<req, donationVars, accountVars, blogVars, volunteerVars>>
    /\ UNCHANGED startVars

\* const hashedPassword = await bcrypt.hash(password, saltRounds)
SignupHash(r) ==
    /\ pc[r] = "signupHash"
    /\ \E salt \in Salts :
        loc' = [loc EXCEPT ![r].hashed = bcryptHash(req[r].password, salt)]
    /\ pc' = [pc EXCEPT ![r] = "signupInsert"]
    /\ UNCHANGED <<req, resp, donationVars, accountVars, blogVars, volunteerVars>>
    /\ UNCHANGED startVars

\* await pool.query('INSERT INTO users ...'); a refused insert is caught by
\* the handler's catch.
SignupInsert(r) ==
    /\ pc[r] = "signupInsert"
    /\ LET row == UserRow(userSeq, req[r].firstName, req[r].lastName, req[r].email,
                          loc[r].hashed) IN
       IF UsersInsertError(row) = "none"
       THEN /\ users' = users \cup {row}
            /\ userSeq' = userSeq + 1
            /\ loc' = loc
            /\ Reply(r, [status |-> 201, message |-> "User created successfully",
                         userId |-> row.id])
       ELSE /\ loc' = [loc EXCEPT ![r].err = UsersInsertError(row)]
            /\ Reply(r, InternalServerError)
            /\ UNCHANGED <<users, userSeq>>
    /\ UNCHANGED <<req, bios, bioSeq, now, donationVars, blogVars, volunteerVars>>
    /\ UNCHANGED startVars

(***************************************************************************)
(* POST /api/login                                                         *)
(***************************************************************************)
LoginBody(email, password) == [kind |-> "login", email |-> email, password |-> password]
LoginBodies ==
    {LoginBody(e, p) : e \in Emails, p \in Passwords}
    \cup {LoginBody("", "password1"), LoginBody("a@x", "")}

\* The two 401 answers of the handler.
NoSuchUserDistinct == ErrorResp(404, "User not found")
NoSuchUser == ErrorResp(401, "Invalid email or password")
WrongPassword == ErrorResp(401, "Invalid email or password")

LoginReceive(r) ==
    /\ MayArrive(r)
    /\ \E b \in LoginBodies :
        /\ req' = [req EXCEPT ![r] = b]
        /\ IF Falsy(b.email) \/ Falsy(b.password)
           THEN Reply(r, ErrorResp(400, "Email and password are required"))
           ELSE pc' = [pc EXCEPT ![r] = "loginSelect"] /\ resp' = resp
    /\ UNCHANGED <<loc, donationVars, accountVars, blogVars, volunteerVars>>
    /\ UNCHANGED startVars

\* const [users] = await pool.query('SELECT * FROM users WHERE email = ?')
LoginSelect(r) ==
    /\ pc[r] = "loginSelect"
    /\ IF UsersByEmail(req[r].email) = {}
       THEN Reply(r, NoSuchUser) /\ loc' = loc
       ELSE /\ loc' = [loc EXCEPT ![r].row = First(UsersByEmail(req[r].email)),
                                  ![r].found = TRUE]
            /\ pc' = [pc EXCEPT ![r] = "loginCompare"]
            /\ resp' = resp
    /\ UNCHANGED <<req, donationVars, accountVars, blogVars, volunteerVars>>
    /\ UNCHANGED startVars

\* const passwordMatch = await bcrypt.compare(password, user.password); then
\* the token is signed and the user data returned without the password.
LoginCompare(r) ==
    /\ pc[r] = "loginCompare"
    /\ LET user == loc[r].row IN
       IF ~bcryptCompare(req[r].password, user.password)
       THEN Reply(r, WrongPassword)
       ELSE Reply(r, [status |-> 200, message |-> "Login successful",
                      user |-> [id |-> user.id, firstName |-> user.first_name,
                                lastName |-> user.last_name, email |-> user.email],
                      token |-> jwtSign(user.id, user.email, JwtSecret, now)])
    /\ UNCHANGED <<req, loc, donationVars, accountVars, blogVars, volunteerVars>>
    /\ UNCHANGED startVars


(***************************************************************************)
(* The routes behind authenticateToken                                     *)
(***************************************************************************)
AccountSeedUser == UserRow(1, "Ann", "Lee", "a@x", bcryptHash("password1", 1))
\* The token the seeded user's client got from a login at hour 0.
PriorToken == jwtSign(AccountSeedUser.id, AccountSeedUser.email, JwtSecret, 0)

\* The tokens clients hold: the ones login has handed out.
KnownTokens ==
    {PriorToken} \cup
    {resp[q].token : q \in {x \in DOMAIN pc : req[x].kind = "login" /\ resp[x].status = 200}}
Forged(t) == [t EXCEPT !.key = "attacker-key"]
\* The Authorization headers clients send: a token they hold after the
\* scheme, and the ways to get that wrong.
BearerHeaders == {Header(<<Word("Bearer"), Sp, t>>) : t \in KnownTokens}
BadHeaders ==
    {NoHeader, Header(<<Word("Bearer")>>), Header(<<Word("Bearer"), Sp, Word("garbage")>>)}
    \cup UNION { { Header(<<t>>),
                   Header(<<Word("Bearer"), Sp, Sp, t>>),
                   Header(<<Word("Bearer"), Sp, Forged(t)>>) } : t \in {PriorToken} }
Headers == BearerHeaders \cup BadHeaders

\* (SELECT id FROM users WHERE email = ?): NULL, written 0, when no row matches.
NullId == 0
UserIdByEmail(email) ==
    IF UsersByEmail(email) = {} THEN NullId ELSE First(UsersByEmail(email)).id
\* ... WHERE user_id = (subquery): a NULL matches no row.
BiosOfUser(uid) == {b \in bios : uid # NullId /\ b.user_id = uid}

\* The request arrives and passes the middleware; `after` is where the
\* handler first awaits.
Gate(r, b, after) ==
    /\ req' = [req EXCEPT ![r] = b]
    /\ IF authenticateToken(b.header, now).resp # NoResp
       THEN Reply(r, authenticateToken(b.header, now).resp) /\ loc' = loc
       ELSE /\ loc' = [loc EXCEPT ![r].user = authenticateToken(b.header, now).user]
            /\ pc' = [pc EXCEPT ![r] = after]
            /\ resp' = resp

(***************************************************************************)
(* GET /api/user/bio                                                       *)
(***************************************************************************)
BioGetReceive(r) ==
    /\ MayArrive(r)
    /\ \E h \in Headers : Gate(r, [kind |-> "getBio", header |-> h, at |-> now], "bioGetSelect")
    /\ UNCHANGED <<donationVars, accountVars, blogVars, volunteerVars>>
    /\ UNCHANGED startVars

\* SELECT ... FROM users u LEFT JOIN bios b ON u.id = b.user_id WHERE u.email = ?
BioJoin(email) ==
    UNION { IF BiosOfUser(u.id) = {}
            THEN {[id |-> u.id, first_name |-> u.first_name, last_name |-> u.last_name,
                   email |-> u.email, bio |-> Null]}
            ELSE {[id |-> u.id, first_name |-> u.first_name, last_name |-> u.last_name,
                   email |-> u.email, bio |-> b.bio] : b \in BiosOfUser(u.id)}
          : u \in UsersByEmail(email) }

BioGetSelect(r) ==
    /\ pc[r] = "bioGetSelect"
    /\ IF BioJoin(loc[r].user.email) = {}
       THEN Reply(r, ErrorResp(404, "User not found"))
       ELSE \E row \in BioJoin(loc[r].user.email) :
              Reply(r, [status |-> 200, id |-> row.id, firstName |-> row.first_name,
                        lastName |-> row.last_name, email |-> row.email,
                        bio |-> IF row.bio = Null THEN "" ELSE row.bio])
    /\ UNCHANGED <<req, loc, donationVars, accountVars, blogVars, volunteerVars>>
    /\ UNCHANGED startVars

(***************************************************************************)
(* PUT /api/user/bio                                                       *)
(***************************************************************************)
BioTexts == {"hello", "world"}
BioBodies == (BearerHeaders \X BioTexts) \cup (BadHeaders \X {"hello"})

BioPutReceive(r) ==
    /\ MayArrive(r)
    /\ \E b \in BioBodies :
        Gate(r, [kind |-> "putBio", header |-> b[1], at |-> now, bio |-> b[2]], "bioCheck")
    /\ UNCHANGED <<donationVars, accountVars, blogVars, volunteerVars>>
    /\ UNCHANGED startVars

\* const [checkBio] = await pool.query('SELECT * FROM bios WHERE user_id = (...)')
BioCheck(r) ==
    /\ pc[r] = "bioCheck"
    /\ loc' = [loc EXCEPT ![r].found = BiosOfUser(UserIdByEmail(loc[r].user.email)) # {}]
    /\ pc' = [pc EXCEPT ![r] =
                IF BiosOfUser(UserIdByEmail(loc[r].user.email)) # {}
                THEN "bioUpdate" ELSE "bioInsert"]
    /\ UNCHANGED <<req, resp, donationVars, accountVars, blogVars, volunteerVars>>
    /\ UNCHANGED startVars

BioUpdated == [status |-> 200, message |-> "Bio updated successfully"]

\* await pool.query('UPDATE bios SET bio = ? WHERE user_id = (...)')
BioUpdate(r) ==
    /\ pc[r] = "bioUpdate"
    /\ bios' = { IF b \in BiosOfUser(UserIdByEmail(loc[r].user.email))
                 THEN [b EXCEPT !.bio = req[r].bio] ELSE b : b \in bios }
    /\ Reply(r, BioUpdated)
    /\ UNCHANGED <<req, loc, users, userSeq, bioSeq, now, donationVars, blogVars, volunteerVars>>
    /\ UNCHANGED startVars

\* user_id INT NOT NULL, UNIQUE KEY (user_id): what the INSERT is refused for.
BiosInsertErrorNoUnique(row) ==
    IF row.user_id = NullId THEN "ER_BAD_NULL_ERROR" ELSE "none"
BiosInsertError(row) ==
    IF row.user_id = NullId THEN "ER_BAD_NULL_ERROR"
    ELSE IF \E b \in bios : b.user_id = row.user_id THEN "ER_DUP_ENTRY"
    ELSE "none"

\* await pool.query('INSERT INTO bios (user_id, bio) VALUES ((...), ?)')
BioInsert(r) ==
    /\ pc[r] = "bioInsert"
    /\ LET row == [id |-> bioSeq, user_id |-> UserIdByEmail(loc[r].user.email),
                   bio |-> req[r].bio] IN
       IF BiosInsertError(row) = "none"
       THEN /\ bios' = bios \cup {row}
            /\ bioSeq' = bioSeq + 1
            /\ loc' = loc
            /\ Reply(r, BioUpdated)
       ELSE /\ loc' = [loc EXCEPT ![r].err = BiosInsertError(row)]
            /\ Reply(r, InternalServerError)
            /\ UNCHANGED <<bios, bioSeq>>
    /\ UNCHANGED <<req, users, userSeq, now, donationVars, blogVars, volunteerVars>>
    /\ UNCHANGED startVars

(***************************************************************************)
(* PUT /api/user/password                                                  *)
(***************************************************************************)
PasswordBody(currentPassword, newPassword) ==
    [kind |-> "putPassword", currentPassword |-> currentPassword,
     newPassword |-> newPassword]
PasswordBodies ==
    {PasswordBody("password1", n) : n \in Passwords \cup {ShortPassword}}
    \cup {PasswordBody("password2", "password1"),
          PasswordBody("", "password2"), PasswordBody("password1", ""),
          PasswordBody("", ShortPassword)}
PasswordRequests ==
    (BearerHeaders \X PasswordBodies)
    \cup (BadHeaders \X {PasswordBody("password1", "password2"),
                         PasswordBody("password1", ShortPassword)})

PasswordValidate(b) ==
    IF Falsy(b.currentPassword) \/ Falsy(b.newPassword)
    THEN ErrorResp(400, "Both current and new password are required")
    ELSE IF Len(b.newPassword) < MinPasswordLength
    THEN ErrorResp(400, "New password must be at least 8 characters")
    ELSE NoResp

PasswordReceive(r) ==
    /\ MayArrive(r)
    /\ \E hb \in PasswordRequests :
        LET h == hb[1]
            b == hb[2]
            a == authenticateToken(h, now) IN
        /\ req' = [req EXCEPT ![r] =
                     [kind |-> b.kind, header |-> h, at |-> now,
                      currentPassword |-> b.currentPassword, newPassword |-> b.newPassword]]
        /\ IF a.resp # NoResp THEN Reply(r, a.resp) /\ loc' = loc
           ELSE /\ loc' = [loc EXCEPT ![r].user = a.user]
                /\ IF PasswordValidate(b) # NoResp
                   THEN Reply(r, PasswordValidate(b))
                   ELSE pc' = [pc EXCEPT ![r] = "passwordSelect"] /\ resp' = resp
    /\ UNCHANGED <<donationVars, accountVars, blogVars, volunteerVars>>
    /\ UNCHANGED startVars

\* const [users] = await pool.query('SELECT id, password FROM users WHERE email = ?')
PasswordSelect(r) ==
    /\ pc[r] = "passwordSelect"
    /\ IF UsersByEmail(loc[r].user.email) = {}
       THEN Reply(r, ErrorResp(404, "User not found")) /\ loc' = loc
       ELSE /\ loc' = [loc EXCEPT ![r].row = First(UsersByEmail(loc[r].user.email)),
                                  ![r].found = TRUE]
            /\ pc' = [pc EXCEPT ![r] = "passwordCompare"]
            /\ resp' = resp
    /\ UNCHANGED <<req, donationVars, accountVars, blogVars, volunteerVars>>
    /\ UNCHANGED startVars

CurrentPasswordIncorrect == ErrorResp(401, "Current password is incorrect")

\* const isValid = await bcrypt.compare(currentPassword, users[0].password)
PasswordCompare(r) ==
    /\ pc[r] = "passwordCompare"
    /\ IF ~bcryptCompare(req[r].currentPassword, loc[r].row.password)
       THEN Reply(r, CurrentPasswordIncorrect)
       ELSE pc' = [pc EXCEPT ![r] = "passwordHash"] /\ resp' = resp
    /\ UNCHANGED <<req, loc, donationVars, accountVars, blogVars, volunteerVars>>
    /\ UNCHANGED startVars

\* const hashedPassword = await bcrypt.hash(newPassword, saltRounds)
PasswordHash(r) ==
    /\ pc[r] = "passwordHash"
    /\ \E salt \in Salts :
        loc' = [loc EXCEPT ![r].hashed = bcryptHash(req[r].newPassword, salt)]
    /\ pc' = [pc EXCEPT ![r] = "passwordUpdate"]
    /\ UNCHANGED <<req, resp, donationVars, accountVars, blogVars, volunteerVars>>
    /\ UNCHANGED startVars

\* await pool.query('UPDATE users SET password = ? WHERE id = ?')
PasswordUpdate(r) ==
    /\ pc[r] = "passwordUpdate"
    /\ users' = { IF u.id = loc[r].row.id THEN [u EXCEPT !.password = loc[r].hashed] ELSE u
                  : u \in users }
    /\ Reply(r, [status |-> 200, message |-> "Password updated successfully"])
    /\ UNCHANGED <<req, loc, userSeq, bios, bioSeq, now, donationVars, blogVars, volunteerVars>>
    /\ UNCHANGED startVars

\* An hour passes.
Tick ==
    /\ now < MaxTime
    /\ now' = now + 1
    /\ UNCHANGED <<reqVars, users, userSeq, bios, bioSeq, donationVars, blogVars, volunteerVars>>
    /\ UNCHANGED startVars

AccountReq == 1 .. NAccountReq

\* One user has signed up and logged in before; the other tables are as
\* initializeDatabase creates them.
InitAccount ==
    /\ pc = [r \in AccountReq |-> "idle"]
    /\ req = [r \in AccountReq |-> [kind |-> "none"]]
    /\ loc = [r \in AccountReq |-> NoAccountLoc]
    /\ resp = [r \in AccountReq |-> NoResp]
    /\ conn = [r \in AccountReq |-> NoConn]
    /\ poolInUse = 0
    /\ Donations = {} /\ PaymentMethods = {}
    /\ donationSeq = 1 /\ paymentSeq = 1
    /\ users = {AccountSeedUser} /\ userSeq = 2 /\ bios = {} /\ bioSeq = 1 /\ now = 0
    /\ blogs = {} /\ blogSeq = 1
    /\ volunteers = {} /\ volunteerSeq = 1
    /\ Started

SignupSteps(r) ==
    SignupReceive(r) \/ SignupSelect(r) \/ SignupHash(r) \/ SignupInsert(r)
LoginSteps(r) ==
    LoginReceive(r) \/ LoginSelect(r) \/ LoginCompare(r)
BioSteps(r) ==
    \/ BioGetReceive(r) \/ BioGetSelect(r)
    \/ BioPutReceive(r) \/ BioCheck(r) \/ BioUpdate(r) \/ BioInsert(r)
PasswordSteps(r) ==
    \/ PasswordReceive(r) \/ PasswordSelect(r) \/ PasswordCompare(r)
    \/ PasswordHash(r) \/ PasswordUpdate(r)

\* Signing up and logging in.
NextSignup == \E r \in AccountReq : SignupSteps(r) \/ LoginSteps(r)
SpecSignup == InitAccount /\ [][NextSignup]_vars

\* The routes behind the auth gate, while tokens expire.
NextProfile == Tick \/ \E r \in AccountReq : BioSteps(r) \/ PasswordSteps(r)
SpecProfile == InitAccount /\ [][NextProfile]_vars

\* The two routes that set a password.
NextPassword == \E r \in AccountReq : SignupSteps(r) \/ PasswordSteps(r)
SpecPassword == InitAccount /\ [][NextPassword]_vars

Received(r) == pc[r] # "idle"
Kind(r) == req[r].kind
\* The password a stored hash was derived from is the candidate.
HashIsOf(hash, password) == \E salt \in Salts : hash = bcryptHash(password, salt)

\* C3: a signup with valid fields whose email already belonged to a user
\* row, at its existence check or at its insert, is answered 400 "Email
\* already in use"; and no two user rows share an email.
C3_DuplicateSignupIs400 ==
    /\ \A u, v \in users : u.email = v.email => u = v
    /\ \A r \in DOMAIN pc :
        (Answered(r) /\ Kind(r) = "signup" /\ (loc[r].found \/ loc[r].err = "ER_DUP_ENTRY"))
            => resp[r] = ErrorResp(400, "Email already in use")

\* C4: the bios table holds at most one row per user; exactly one once a
\* bio update of that user was answered with success; and while every bio
\* update the user has sent carries the same text, the row holds that text.
C4_OneBioRowPerUser ==
    /\ \A u \in users : Cardinality({b \in bios : b.user_id = u.id}) <= 1
    /\ \A r \in DOMAIN pc :
        (Kind(r) = "putBio" /\ Answered(r) /\ resp[r].status = 200) =>
            Cardinality({b \in bios : b.user_id = loc[r].user.userId}) = 1
    /\ \A u \in users : \A t \in BioTexts :
        (\A r \in DOMAIN pc :
            (Kind(r) = "putBio" /\ loc[r].user.userId = u.id) => req[r].bio = t)
        => \A b \in bios : b.user_id = u.id => b.bio = t

\* The same bio text was submitted twice by one user, both submissions were
\* answered with success, the second through the UPDATE branch.
C4_Witness ==
    \E r, q \in DOMAIN pc :
        /\ r # q /\ Kind(r) = "putBio" /\ Kind(q) = "putBio"
        /\ req[r].bio = req[q].bio /\ loc[r].user = loc[q].user
        /\ Answered(r) /\ resp[r].status = 200 /\ ~loc[r].found
        /\ Answered(q) /\ resp[q].status = 200 /\ loc[q].found

AuthKinds == {"getBio", "putBio", "putPassword"}
\* What follows the first space of the header, up to the next space.
AfterFirstSpace(h) ==
    IF ~h.present \/ ~\E i \in 1 .. Len(h.chars) : h.chars[i] = Sp THEN <<>>
    ELSE LET i == CHOOSE k \in 1 .. Len(h.chars) :
                    h.chars[k] = Sp /\ \A j \in 1 .. k - 1 : h.chars[j] # Sp
             n == Len(h.chars)
             stop == IF \E k \in i + 1 .. n : h.chars[k] = Sp
                     THEN CHOOSE k \in i + 1 .. n :
                            h.chars[k] = Sp /\ \A j \in i + 1 .. k - 1 : h.chars[j] # Sp
                     ELSE n + 1
         IN SubSeq(h.chars, i + 1, stop - 1)
WellFormed(token) == Len(token) = 1 /\ token[1].form = "jwt"
GenuineAt(token, t) == WellFormed(token) /\ token[1].key = JwtSecret /\ t < token[1].exp
HandlerRan(r) ==
    \/ pc[r] \notin {"idle", "done"}
    \/ Answered(r) /\ resp[r] \notin {AccessTokenRequired, InvalidToken}

\* C6 as claimed: a missing or malformed token is answered 401, a token with
\* an invalid signature or an expired one 403; either way the handler never
\* runs; the handler runs only with verified claims attached to the request.
C6_MalformedIs401 ==
    \A r \in DOMAIN pc :
        (Received(r) /\ Kind(r) \in AuthKinds) =>
            LET token == AfterFirstSpace(req[r].header) IN
            /\ (token = <<>> \/ ~WellFormed(token)) =>
                    resp[r].status = 401 /\ ~HandlerRan(r)
            /\ (WellFormed(token) /\ ~GenuineAt(token, req[r].at)) =>
                    resp[r].status = 403 /\ ~HandlerRan(r)
            /\ HandlerRan(r) => loc[r].user = Claims(token[1])

\* C6 as amended: 401 when the header carries no token (no header, or
\* nothing after its first space), 403 when the token it carries is not a
\* well-formed, correctly signed, unexpired JWT; either way the request is
\* answered at once with the error alone and the handler never runs; the
\* handler runs only with the verified claims of the token attached.
C6_AuthGate ==
    \A r \in DOMAIN pc :
        (Received(r) /\ Kind(r) \in AuthKinds) =>
            LET token == AfterFirstSpace(req[r].header) IN
            /\ token = <<>> =>
                    resp[r] = ErrorResp(401, "Access token required") /\ ~HandlerRan(r)
                    /\ loc[r] = NoAccountLoc
            /\ (token # <<>> /\ ~GenuineAt(token, req[r].at)) =>
                    resp[r] = ErrorResp(403, "Invalid token") /\ ~HandlerRan(r)
                    /\ loc[r] = NoAccountLoc
            /\ HandlerRan(r) =>
                    GenuineAt(token, req[r].at) /\ loc[r].user = Claims(token[1])

\* One request was turned away with 403 for a forged token, and a request
\* with a genuine token was answered by its handler.
C6_Witness ==
    \E r, q \in DOMAIN pc :
        /\ Kind(r) \in AuthKinds /\ resp[r] = InvalidToken
        /\ AfterFirstSpace(req[r].header) # <<>>
        /\ AfterFirstSpace(req[r].header)[1].key = "attacker-key"
        /\ Kind(q) = "getBio" /\ Answered(q) /\ resp[q].status = 200

TakesStep(r) == pc'[r] # pc[r]
PasswordOverwrites(r) == pc[r] = "passwordUpdate" /\ pc'[r] = "done"

\* C7 as claimed: a password change overwrites the stored hash only if its
\* currentPassword verifies against the hash stored at the moment of the
\* overwrite; one that does not verify is answered 401 and changes nothing.
C7_VerifiedAtOverwrite ==
    [][\A r \in DOMAIN pc :
        /\ PasswordOverwrites(r) =>
              \A u \in users : u.id = loc[r].row.id =>
                  HashIsOf(u.password, req[r].currentPassword)
        /\ (pc[r] # "done" /\ pc'[r] = "done" /\ resp'[r] = CurrentPasswordIncorrect) =>
              users' = users]_vars

\* C7 as amended: a password change overwrites the stored hash only if its
\* currentPassword verified against the hash the request read with its
\* SELECT, which was the stored hash at that read; the overwrite changes
\* only that user's password, to a hash of newPassword; a request whose
\* currentPassword does not verify against the hash it read is answered 401
\* and leaves the table unchanged.
C7_VerifiedAtRead ==
    [][\A r \in DOMAIN pc :
        /\ (pc[r] = "passwordSelect" /\ pc'[r] = "passwordCompare") =>
              loc'[r].row \in users /\ loc'[r].row.email = loc[r].user.email
        /\ PasswordOverwrites(r) =>
              /\ HashIsOf(loc[r].row.password, req[r].currentPassword)
              /\ \A u \in users' : \/ u \in users /\ u.id # loc[r].row.id
                                   \/ /\ u.id = loc[r].row.id
                                      /\ HashIsOf(u.password, req[r].newPassword)
              /\ {u.id : u \in users'} = {u.id : u \in users}
        /\ (TakesStep(r) /\ pc[r] = "passwordCompare"
              /\ ~HashIsOf(loc[r].row.password, req[r].currentPassword)) =>
              resp'[r] = ErrorResp(401, "Current password is incorrect") /\ users' = users
        /\ (pc[r] # "done" /\ pc'[r] = "done" /\ resp'[r] = CurrentPasswordIncorrect) =>
              users' = users]_vars

\* Two password changes read the same stored hash and both overwrote it.
C7_Witness ==
    \E r, q \in DOMAIN pc :
        /\ r # q /\ Kind(r) = "putPassword" /\ Kind(q) = "putPassword"
        /\ Answered(r) /\ resp[r].status = 200
        /\ Answered(q) /\ resp[q].status = 200
        /\ loc[r].row = loc[q].row
        /\ req[r].newPassword # req[q].currentPassword


\* C9: every step of a signup whose password differs from its confirmation
\* or is shorter than 8 characters answers 400 and leaves the users table as
\* it was; every step of a password change whose newPassword is shorter
\* than 8 characters leaves the users table as it was and answers 400 (when
\* the request passed the auth gate; 401 or 403 of the gate otherwise).
C9_RejectedInputLeavesUsers ==
    [][\A r \in DOMAIN pc : TakesStep(r) =>
        /\ (req'[r].kind = "signup"
              /\ (req'[r].password # req'[r].confirmPassword
                    \/ Len(req'[r].password) < MinPasswordLength)) =>
              /\ users' = users /\ userSeq' = userSeq
              /\ pc'[r] = "done" /\ resp'[r].status = 400
        /\ (req'[r].kind = "putPassword"
              /\ Len(req'[r].newPassword) < MinPasswordLength) =>
              /\ users' = users
              /\ pc'[r] = "done"
              /\ resp'[r].status = IF GenuineAt(AfterFirstSpace(req'[r].header), req'[r].at)
                                   THEN 400
                                   ELSE IF AfterFirstSpace(req'[r].header) = <<>>
                                   THEN 401 ELSE 403]_vars

\* A signup with a 7-character password (equal to its confirmation, all
\* other fields valid, email unused) and an authenticated password change
\* with a 7-character newPassword and the right currentPassword were rejected.
C9_Witness ==
    \E r, q \in DOMAIN pc :
        /\ Kind(r) = "signup" /\ req[r].password = ShortPassword
        /\ req[r].confirmPassword = ShortPassword /\ req[r].email = "b@x"
        /\ req[r].firstName = "Ann" /\ req[r].lastName = "Lee"
        /\ resp[r].status = 400
        /\ Kind(q) = "putPassword" /\ req[q].newPassword = ShortPassword
        /\ req[q].currentPassword = "password1"
        /\ GenuineAt(AfterFirstSpace(req[q].header), req[q].at)
        /\ resp[q].status = 400

LoginNoUser(r) == Kind(r) = "login" /\ Answered(r) /\ resp[r].status # 400 /\ ~loc[r].found
LoginBadPassword(r) ==
    /\ Kind(r) = "login" /\ Answered(r) /\ loc[r].found
    /\ ~HashIsOf(loc[r].row.password, req[r].password)

\* C10: a login with non-empty email and password is answered 401 "Invalid
\* email or password" both when no user has the email and when the password
\* is wrong, so the two answers are equal; a token is issued only when the
\* password verifies against the user's hash, and it carries the id and
\* email of the user row with the submitted email.
C10_LoginUniformFailure ==
    /\ \A r \in DOMAIN pc :
        (Kind(r) = "login" /\ Answered(r) /\ req[r].email # "" /\ req[r].password # "") =>
            /\ (LoginNoUser(r) \/ LoginBadPassword(r)) =>
                    resp[r] = ErrorResp(401, "Invalid email or password")
            /\ "token" \in DOMAIN resp[r] =>
                    /\ resp[r].status = 200
                    /\ loc[r].found /\ loc[r].row.email = req[r].email
                    /\ HashIsOf(loc[r].row.password, req[r].password)
                    /\ WellFormed(<<resp[r].token>>) /\ resp[r].token.key = JwtSecret
                    /\ \E u \in users : /\ u.email = req[r].email
                                        /\ resp[r].token.userId = u.id
                                        /\ resp[r].token.email = u.email
            /\ resp[r].status = 200 => "token" \in DOMAIN resp[r]
    /\ \A r, q \in DOMAIN pc : (LoginNoUser(r) /\ LoginBadPassword(q)) => resp[r] = resp[q]

\* One login named an unknown email, another the seeded user with a wrong
\* password, and both have been answered.
C10_Witness ==
    \E r, q \in DOMAIN pc : LoginNoUser(r) /\ LoginBadPassword(q)


(***************************************************************************)
(* POST /api/volunteers                                                    *)
(***************************************************************************)
VolunteerBody(firstName, email, phone, availability, experience) ==
    [kind |-> "volunteer", firstName |-> firstName, lastName |-> "Lee", email |-> email,
     phone |-> phone, interest |-> "food", availability |-> availability,
     experience |-> experience]
VolunteerBodies ==
    { VolunteerBody("Ann", e, "555", "weekends", x) :
        e \in {"v@x", "w@x"}, x \in {Undefined, "tutor"} }
    \cup { VolunteerBody("", "v@x", "555", "weekends", "tutor"),
           VolunteerBody("Ann", Undefined, "555", "weekends", "tutor"),
           VolunteerBody("Ann", "v@x", "", "weekends", "tutor"),
           VolunteerBody("Ann", "v@x", "555", Undefined, "tutor") }

VolunteerComplete(b) ==
    ~(Falsy(b.firstName) \/ Falsy(b.lastName) \/ Falsy(b.email) \/ Falsy(b.phone)
      \/ Falsy(b.interest) \/ Falsy(b.availability))

VolunteerReceive(r) ==
    /\ MayArrive(r)
    /\ \E b \in VolunteerBodies :
        /\ req' = [req EXCEPT ![r] = b]
        /\ IF ~VolunteerComplete(b)
           THEN Reply(r, ErrorResp(400, "Missing required fields"))
           ELSE pc' = [pc EXCEPT ![r] = "volunteerInsert"] /\ resp' = resp
    /\ UNCHANGED <<loc, donationVars, accountVars, blogVars, volunteerVars>>
    /\ UNCHANGED startVars

VolunteerRow(id, b) ==
    [id |-> id, first_name |-> b.firstName, last_name |-> b.lastName, email |-> b.email,
     phone |-> b.phone, interest_area |-> b.interest, availability |-> b.availability,
     experience |-> IF Falsy(b.experience) THEN Null ELSE b.experience]

\* UNIQUE KEY unique_email (email): what the INSERT is refused for.
VolunteersInsertErrorNoUnique(row) == "none"
VolunteersInsertError(row) ==
    IF \E v \in volunteers : v.email = row.email THEN "ER_DUP_ENTRY" ELSE "none"

EmailAlreadyExists == ErrorResp(400, "Email already exists")

\* await pool.execute('INSERT INTO volunteers ...') and the catch, which
\* tells err.code ER_DUP_ENTRY from the rest.
VolunteerInsert(r) ==
    /\ pc[r] = "volunteerInsert"
    /\ LET row == VolunteerRow(volunteerSeq, req[r]) IN
       IF VolunteersInsertError(row) = "none"
       THEN /\ volunteers' = volunteers \cup {row}
            /\ volunteerSeq' = volunteerSeq + 1
            /\ loc' = loc
            /\ Reply(r, [status |-> 201,
                         message |-> "Volunteer application submitted successfully",
                         id |-> row.id])
       ELSE /\ loc' = [loc EXCEPT ![r].err = VolunteersInsertError(row)]
            /\ IF VolunteersInsertError(row) = "ER_DUP_ENTRY"
               THEN Reply(r, EmailAlreadyExists)
               ELSE Reply(r, ErrorResp(500, "Server error"))
            /\ UNCHANGED <<volunteers, volunteerSeq>>
    /\ UNCHANGED <<req, donationVars, accountVars, blogVars>>
    /\ UNCHANGED startVars

VolunteerReq == 1 .. NVolunteerReq

InitVolunteer ==
    /\ pc = [r \in VolunteerReq |-> "idle"]
    /\ req = [r \in VolunteerReq |-> [kind |-> "none"]]
    /\ loc = [r \in VolunteerReq |-> [err |-> "none"]]
    /\ resp = [r \in VolunteerReq |-> NoResp]
    /\ conn = [r \in VolunteerReq |-> NoConn]
    /\ poolInUse = 0
    /\ Donations = {} /\ PaymentMethods = {}
    /\ donationSeq = 1 /\ paymentSeq = 1
    /\ users = {} /\ userSeq = 1 /\ bios = {} /\ bioSeq = 1 /\ now = 0
    /\ blogs = {} /\ blogSeq = 1
    /\ volunteers = {} /\ volunteerSeq = 1
    /\ Started

NextVolunteer == \E r \in VolunteerReq : VolunteerReceive(r) \/ VolunteerInsert(r)

SpecVolunteer == InitVolunteer /\ [][NextVolunteer]_vars

VolunteersWith(rows, email) == {v \in rows : v.email = email}

\* C5: a volunteer submission with all required fields whose INSERT finds
\* no row with its email is answered 201 and adds the one row for that
\* email; one whose INSERT finds such a row is answered 400 "Email already
\* exists" and adds nothing; so for an email, one answered submission got
\* 201, the others 400, and the table holds exactly one row for it.
C5_DuplicateVolunteer ==
    [][/\ \A r \in DOMAIN pc :
            (pc[r] = "volunteerInsert" /\ TakesStep(r)) =>
                IF VolunteersWith(volunteers, req[r].email) = {}
                THEN /\ resp'[r].status = 201
                     /\ Cardinality(VolunteersWith(volunteers', req[r].email)) = 1
                ELSE /\ resp'[r] = ErrorResp(400, "Email already exists")
                     /\ volunteers' = volunteers
       /\ \A r \in DOMAIN pc :
            (req'[r].kind = "volunteer" /\ VolunteerComplete(req'[r]) /\ pc'[r] = "done") =>
                LET same == {q \in DOMAIN pc : /\ req'[q].kind = "volunteer"
                                               /\ req'[q].email = req'[r].email
                                               /\ VolunteerComplete(req'[q])
                                               /\ pc'[q] = "done"} IN
                /\ Cardinality(VolunteersWith(volunteers', req'[r].email)) = 1
                /\ Cardinality({q \in same : resp'[q].status = 201}) = 1
                /\ \A q \in same : resp'[q].status # 201 =>
                        resp'[q] = ErrorResp(400, "Email already exists")]_vars

\* The same complete application was submitted three times: one 201, then
\* two 400 "Email already exists".
C5_Witness ==
    \E r \in DOMAIN pc :
        /\ resp[r].status = 201
        /\ Cardinality({q \in DOMAIN pc : req[q] = req[r] /\ resp[q] = EmailAlreadyExists}) >= 2

(***************************************************************************)
(* Blogs and their reviews                                                 *)
(***************************************************************************)
\* The tables initializeDatabase creates.
SchemaTables == {"users", "bios", "blogs", "Donations", "PaymentMethods", "volunteers"}

\* JSON.stringify and JSON.parse of an array of reviews: the column holds
\* text, the handlers work on the array.
JsonStringify(array) == [json |-> array]
JsonParse(text) == text.json

\* new Date(d).toLocaleDateString('en-US', {year, month, day})
LongDate(d) == <<"long date", d>>

BlogRow(id, b, date) ==
    [id |-> id, title |-> SqlParam(b.title), description |-> SqlParam(b.description),
     category |-> SqlParam(b.category), image_url |-> SqlParam(b.image_url),
     content |-> SqlParam(b.content), date |-> date,
     \* reviews JSON DEFAULT '[]'
     reviews |-> JsonStringify(<<>>)]
NoBlog == [id |-> 0, title |-> Null, description |-> Null, category |-> Null,
           image_url |-> Null, content |-> Null, date |-> 0, reviews |-> JsonStringify(<<>>)]
\* title, description, category NOT NULL
BlogRowOk(row) == row.title # Null /\ row.description # Null /\ row.category # Null

BlogIds == 1 .. 2
BlogsById(id) == {b \in blogs : b.id = id}

NoReview == [id |-> 0, author |-> Undefined, rating |-> 0, date |-> 0]
NoBlogLoc == [insertId |-> 0, blog |-> NoBlog, found |-> FALSE, newReview |-> NoReview,
              updatedReviews |-> <<>>, err |-> "none"]

BlogBodies ==
    { [kind |-> "createBlog", title |-> t, description |-> "d", category |-> "news",
       image_url |-> Undefined, content |-> "text"] : t \in {"Hello", Undefined} }

BlogCreateReceive(r) ==
    /\ MayArrive(r)
    /\ \E b \in BlogBodies : req' = [req EXCEPT ![r] = b]
    /\ pc' = [pc EXCEPT ![r] = "blogInsert"]
    /\ UNCHANGED <<loc, resp, donationVars, accountVars, blogVars, volunteerVars>>
    /\ UNCHANGED startVars

\* await pool.query('INSERT INTO blogs (...) VALUES (?, ?, ?, ?, ?, CURDATE())')
BlogInsert(r) ==
    /\ pc[r] = "blogInsert"
    /\ LET row == BlogRow(blogSeq, req[r], now) IN
       IF BlogRowOk(row)
       THEN /\ blogs' = blogs \cup {row}
            /\ blogSeq' = blogSeq + 1
            /\ loc' = [loc EXCEPT ![r].insertId = row.id]
            /\ pc' = [pc EXCEPT ![r] = "blogReselect"]
            /\ resp' = resp
       ELSE /\ loc' = [loc EXCEPT ![r].err = "ER_BAD_NULL_ERROR"]
            /\ Reply(r, ErrorResp(500, "Failed to create blog"))
            /\ UNCHANGED <<blogs, blogSeq>>
    /\ UNCHANGED <<req, donationVars, accountVars, volunteerVars>>
    /\ UNCHANGED startVars

\* const [newBlog] = await pool.query('SELECT * FROM blogs WHERE id = ?', [insertId])
BlogReselect(r) ==
    /\ pc[r] = "blogReselect"
    /\ \E row \in BlogsById(loc[r].insertId) :
        Reply(r, [status |-> 201, blog |-> [row EXCEPT !.date = LongDate(row.date)],
                  reviews |-> <<>>])
    /\ UNCHANGED <<req, loc, donationVars, accountVars, blogVars, volunteerVars>>
    /\ UNCHANGED startVars

BlogGetReceive(r) ==
    /\ MayArrive(r)
    /\ \E id \in BlogIds : req' = [req EXCEPT ![r] = [kind |-> "getBlog", id |-> id]]
    /\ pc' = [pc EXCEPT ![r] = "blogGetSelect"]
    /\ UNCHANGED <<loc, resp, donationVars, accountVars, blogVars, volunteerVars>>
    /\ UNCHANGED startVars

\* const [blogs] = await pool.query('SELECT * FROM blogs WHERE id = ?')
BlogGetSelect(r) ==
    /\ pc[r] = "blogGetSelect"
    /\ IF BlogsById(req[r].id) = {}
       THEN Reply(r, ErrorResp(404, "Blog not found")) /\ loc' = loc
       ELSE /\ loc' = [loc EXCEPT ![r].blog = First(BlogsById(req[r].id)), ![r].found = TRUE]
            /\ pc' = [pc EXCEPT ![r] = "blogGetReviews"]
            /\ resp' = resp
    /\ UNCHANGED <<req, donationVars, accountVars, blogVars, volunteerVars>>
    /\ UNCHANGED startVars

\* The rows of blog_reviews: no statement of the program inserts any.
BlogReviewRows(id) == {}

\* const [reviews] = await pool.query('SELECT * FROM blog_reviews WHERE blog_id = ?'):
\* the schema has no such table, the query is refused and the catch answers.
BlogGetReviews(r) ==
    /\ pc[r] = "blogGetReviews"
    /\ IF "blog_reviews" \notin SchemaTables
       THEN /\ loc' = [loc EXCEPT ![r].err = "ER_NO_SUCH_TABLE"]
            /\ Reply(r, ErrorResp(500, "Failed to fetch blog"))
       ELSE /\ loc' = loc
            /\ Reply(r, [status |-> 200,
                         blog |-> [loc[r].blog EXCEPT !.date = LongDate(loc[r].blog.date)],
                         reviews |-> BlogReviewRows(req[r].id)])
    /\ UNCHANGED <<req, donationVars, accountVars, blogVars, volunteerVars>>
    /\ UNCHANGED startVars


\* req.body.rating as JSON delivers it: a number or a string.
Rating(type, value) == [type |-> type, value |-> value]
ReviewBody(id, author, rating) ==
    [kind |-> "postReview", id |-> id, author |-> author, rating |-> rating]
ReviewBodies ==
    { ReviewBody(1, "Bob", Rating("number", 2)),
      ReviewBody(2, Undefined, Rating("number", 5)),
      ReviewBody(1, "Bob", Rating("number", 0)),
      ReviewBody(1, "Bob", Rating("number", 6)),
      ReviewBody(1, "Bob", Rating("string", 4)) }

RatingOk(g) == g.type = "number" /\ g.value >= 1 /\ g.value <= 5

\* {id: Date.now(), author: author || 'Anonymous', rating: Number(rating),
\*  date: new Date().toLocaleDateString()}
NewReview(b, t) ==
    [id |-> t, author |-> IF Falsy(b.author) THEN "Anonymous" ELSE b.author,
     rating |-> b.rating.value, date |-> <<"short date", t>>]

BlogReviewReceive(r) ==
    /\ MayArrive(r)
    /\ \E b \in ReviewBodies :
        /\ req' = [req EXCEPT ![r] = b]
        /\ IF ~RatingOk(b.rating)
           THEN /\ Reply(r, ErrorResp(400, "Rating must be a number between 1 and 5"))
                /\ loc' = loc
           ELSE /\ loc' = [loc EXCEPT ![r].newReview = NewReview(b, now)]
                /\ pc' = [pc EXCEPT ![r] = "reviewSelect"]
                /\ resp' = resp
    /\ UNCHANGED <<donationVars, accountVars, blogVars, volunteerVars>>
    /\ UNCHANGED startVars

\* const [blogs] = await pool.query('SELECT reviews FROM blogs WHERE id = ?');
\* currentReviews = blogs[0]?.reviews ? JSON.parse(blogs[0].reviews) : []
BlogReviewSelect(r) ==
    /\ pc[r] = "reviewSelect"
    /\ LET currentReviews == IF BlogsById(req[r].id) = {} THEN <<>>
                             ELSE JsonParse(First(BlogsById(req[r].id)).reviews) IN
       loc' = [loc EXCEPT ![r].updatedReviews = Append(currentReviews, loc[r].newReview),
                          ![r].found = BlogsById(req[r].id) # {}]
    /\ pc' = [pc EXCEPT ![r] = "reviewUpdate"]
    /\ UNCHANGED <<req, resp, donationVars, accountVars, blogVars, volunteerVars>>
    /\ UNCHANGED startVars

RECURSIVE SumRatings(_)
SumRatings(reviews) ==
    IF reviews = <<>> THEN 0 ELSE Head(reviews).rating + SumRatings(Tail(reviews))

\* BlogReviewUpdate as it would be with the append done by the database
\* (JSON_ARRAY_APPEND) on the array stored at the time of the write.
BlogReviewUpdateAppendsInPlace(r) ==
    /\ pc[r] = "reviewUpdate"
    /\ blogs' = { IF b.id = req[r].id
                  THEN [b EXCEPT !.reviews =
                           JsonStringify(Append(JsonParse(b.reviews), loc[r].newReview))]
                  ELSE b
                  : b \in blogs }
    /\ Reply(r, [status |-> 201, reviews |-> loc[r].updatedReviews,
                 average_rating |-> <<SumRatings(loc[r].updatedReviews),
                                      Len(loc[r].updatedReviews)>>,
                 review_count |-> Len(loc[r].updatedReviews)])
    /\ UNCHANGED <<req, loc, blogSeq, donationVars, accountVars, volunteerVars>>
    /\ UNCHANGED startVars

\* await pool.query('UPDATE blogs SET reviews = ? WHERE id = ?'), which
\* matches no row when the blog does not exist; then the 201.  The average
\* is kept as the pair (sum, count) it is the quotient of.
BlogReviewUpdate(r) ==
    /\ pc[r] = "reviewUpdate"
    /\ blogs' = { IF b.id = req[r].id
                  THEN [b EXCEPT !.reviews = JsonStringify(loc[r].updatedReviews)] ELSE b
                  : b \in blogs }
    /\ Reply(r, [status |-> 201, reviews |-> loc[r].updatedReviews,
                 average_rating |-> <<SumRatings(loc[r].updatedReviews),
                                      Len(loc[r].updatedReviews)>>,
                 review_count |-> Len(loc[r].updatedReviews)])
    /\ UNCHANGED <<req, loc, blogSeq, donationVars, accountVars, volunteerVars>>
    /\ UNCHANGED startVars

\* Time passes (CURDATE, Date.now).
BlogTick ==
    /\ now < MaxTime
    /\ now' = now + 1
    /\ UNCHANGED <<reqVars, users, userSeq, bios, bioSeq, donationVars, blogVars, volunteerVars>>
    /\ UNCHANGED startVars

BlogReq == 1 .. NBlogReq

InitBlog ==
    /\ pc = [r \in BlogReq |-> "idle"]
    /\ req = [r \in BlogReq |-> [kind |-> "none"]]
    /\ loc = [r \in BlogReq |-> NoBlogLoc]
    /\ resp = [r \in BlogReq |-> NoResp]
    /\ conn = [r \in BlogReq |-> NoConn]
    /\ poolInUse = 0
    /\ Donations = {} /\ PaymentMethods = {}
    /\ donationSeq = 1 /\ paymentSeq = 1
    /\ users = {} /\ userSeq = 1 /\ bios = {} /\ bioSeq = 1 /\ now = 0
    /\ blogs = {} /\ blogSeq = 1
    /\ volunteers = {} /\ volunteerSeq = 1
    /\ Started

NextBlog ==
    \/ BlogTick
    \/ \E r \in BlogReq :
        \/ BlogCreateReceive(r) \/ BlogInsert(r) \/ BlogReselect(r)
        \/ BlogGetReceive(r) \/ BlogGetSelect(r) \/ BlogGetReviews(r)
        \/ BlogReviewReceive(r) \/ BlogReviewSelect(r) \/ BlogReviewUpdate(r)

SpecBlog == InitBlog /\ [][NextBlog]_vars

\* C8: GET /api/blogs/:id answers 404 when no blog has the id and otherwise
\* 200 with the blog and the reviews of the blog's embedded reviews column,
\* so that a review accepted for an existing blog before the GET read the
\* blog is among the reviews returned.
C8_BlogDetailShowsReviews ==
    \A r \in DOMAIN pc :
        (Kind(r) = "getBlog" /\ Answered(r)) =>
            IF ~loc[r].found THEN resp[r] = ErrorResp(404, "Blog not found")
            ELSE /\ resp[r].status = 200
                 /\ resp[r].reviews = JsonParse(loc[r].blog.reviews)


\* Blog creation and review submission only.
NextReview ==
    \/ BlogTick
    \/ \E r \in BlogReq :
        \/ BlogCreateReceive(r) \/ BlogInsert(r) \/ BlogReselect(r)
        \/ BlogReviewReceive(r) \/ BlogReviewSelect(r) \/ BlogReviewUpdate(r)

SpecReview == InitBlog /\ [][NextReview]_vars

\* The array a review request read with its SELECT.
BaseRead(r) == SubSeq(loc[r].updatedReviews, 1, Len(loc[r].updatedReviews) - 1)
\* The reviews array stored for a blog id (empty when no blog has the id).
StoredReviews(id) ==
    IF BlogsById(id) = {} THEN <<>> ELSE JsonParse(First(BlogsById(id)).reviews)
Elements(seq) == {seq[i] : i \in 1 .. Len(seq)}
ReviewAccepted(r) == Kind(r) = "postReview" /\ resp[r].status = 201

\* C11: the UPDATE of a review submission stores the array the request read
\* with its SELECT plus its own review, whatever the column holds by then;
\* so two accepted submissions that read the same base array leave an array
\* with only one of their two reviews (the state C11_Witness describes).
C11_WriteBackOfStaleRead ==
    [][\A r \in DOMAIN pc :
          (pc[r] = "reviewUpdate" /\ pc'[r] = "done" /\ BlogsById(req[r].id) # {}) =>
              /\ resp'[r].status = 201
              /\ \A b \in blogs' :
                    b.id = req[r].id =>
                        JsonParse(b.reviews) = Append(BaseRead(r), loc[r].newReview)]_vars

\* Two submissions for the same existing blog read the same base array, both
\* were answered 201, and the stored array has the review of one only.
C11_Witness ==
    \E q, r \in DOMAIN pc :
        /\ q # r /\ ReviewAccepted(q) /\ ReviewAccepted(r)
        /\ req[q].id = req[r].id /\ BlogsById(req[r].id) # {}
        /\ BaseRead(q) = BaseRead(r)
        /\ loc[q].newReview # loc[r].newReview
        /\ StoredReviews(req[r].id) = loc[r].updatedReviews
        /\ loc[r].newReview \in Elements(StoredReviews(req[r].id))
        /\ loc[q].newReview \notin Elements(StoredReviews(req[r].id))

\* C12: whenever POST /api/blogs/:id/reviews answers 201, a blog with that
\* id exists and, right after the request's UPDATE, the blog's stored reviews
\* column equals the reviews array of the response, whose review_count is
\* its length; a submission for an id that matches no blog is not answered 201.
C12_Review201MeansStored ==
    [][\A r \in DOMAIN pc :
          (pc[r] = "reviewUpdate" /\ pc'[r] = "done" /\ resp'[r].status = 201) =>
              /\ BlogsById(req[r].id) # {}
              /\ \A b \in blogs' :
                    b.id = req[r].id => JsonParse(b.reviews) = resp'[r].reviews
              /\ resp'[r].review_count = Len(resp'[r].reviews)]_vars


(***************************************************************************)
(* Start-up: db.js calls initializeDatabase() without awaiting it and      *)
(* exports the pool; server.js then registers the routes and calls         *)
(* app.listen.  The initialisation and the server run side by side.        *)
(***************************************************************************)
StartReq == 1 .. NStartReq

At(place, i) == [at |-> place, next |-> i]

\* The state when the main script has run: initializeDatabase is suspended
\* at its first await, app.listen has been called and the port is not bound
\* yet.  The database is a fresh one or one an earlier run has initialised.
InitStartup ==
    /\ pc = [r \in StartReq |-> "idle"]
    /\ req = [r \in StartReq |-> [kind |-> "none"]]
    /\ loc = [r \in StartReq |-> NoBlogLoc]
    /\ resp = [r \in StartReq |-> NoResp]
    /\ conn = [r \in StartReq |-> NoConn]
    /\ poolInUse = 0
    /\ Donations = {} /\ PaymentMethods = {}
    /\ donationSeq = 1 /\ paymentSeq = 1
    /\ users = {} /\ userSeq = 1 /\ bios = {} /\ bioSeq = 1 /\ now = 0
    /\ blogs = {} /\ blogSeq = 1
    /\ volunteers = {} /\ volunteerSeq = 1
    /\ process = "running" /\ dbInit = At("getConnection", 1)
    /\ tables \in {{}, InitCreates}
    /\ listening = FALSE

\* catch (error) { console.error(...); process.exit(1) }
InitFailed ==
    /\ dbInit' = [dbInit EXCEPT !.at = "failed"]
    /\ process' = "exited"

\* const connection = await pool.getConnection()
DbGetConnection ==
    /\ process = "running" /\ dbInit.at = "getConnection"
    /\ \/ /\ dbInit' = At("query", 1)
          /\ poolInUse' = poolInUse + 1
          /\ process' = process
       \/ InitFailed /\ poolInUse' = poolInUse
    /\ UNCHANGED <<reqVars, conn, Donations, PaymentMethods, donationSeq, paymentSeq,
                   accountVars, blogVars, volunteerVars, tables, listening>>

\* await connection.query(CREATE TABLE IF NOT EXISTS ... / ALTER TABLE ... ADD
\* COLUMN IF NOT EXISTS ...); after the last one connection.release().
DbQuery ==
    /\ process = "running" /\ dbInit.at = "query"
    /\ \/ /\ tables' = tables \cup {InitStatements[dbInit.next]}
          /\ IF dbInit.next = Len(InitStatements)
             THEN dbInit' = At("done", dbInit.next) /\ poolInUse' = poolInUse - 1
             ELSE dbInit' = At("query", dbInit.next + 1) /\ poolInUse' = poolInUse
          /\ process' = process
       \/ InitFailed /\ UNCHANGED <<tables, poolInUse>>
    /\ UNCHANGED <<reqVars, conn, Donations, PaymentMethods, donationSeq, paymentSeq,
                   accountVars, blogVars, volunteerVars, listening>>

\* app.listen(PORT, ...): the port is bound.
Listen ==
    /\ process = "running" /\ ~listening
    /\ listening' = TRUE
    /\ UNCHANGED <<reqVars, donationVars, accountVars, blogVars, volunteerVars,
                   process, dbInit, tables>>

Serving == process = "running" /\ listening

\* app.get('/api/health'): res.json({status: 'healthy'})
HealthReceive(r) ==
    /\ Serving /\ MayArrive(r)
    /\ req' = [req EXCEPT ![r] = [kind |-> "getHealth"]]
    /\ Reply(r, [status |-> 200, body |-> "healthy"])
    /\ UNCHANGED <<loc, donationVars, accountVars, blogVars, volunteerVars, startVars>>

\* blogs.map(blog => ({...blog, reviews, average_rating, review_count, date}))
FormattedBlog(b) ==
    [id |-> b.id, title |-> b.title, description |-> b.description,
     category |-> b.category, image_url |-> b.image_url, content |-> b.content,
     date |-> LongDate(b.date), reviews |-> JsonParse(b.reviews),
     average_rating |-> <<SumRatings(JsonParse(b.reviews)), Len(JsonParse(b.reviews))>>,
     review_count |-> Len(JsonParse(b.reviews))]

BlogListReceive(r) ==
    /\ Serving /\ MayArrive(r)
    /\ req' = [req EXCEPT ![r] = [kind |-> "getBlogs"]]
    /\ pc' = [pc EXCEPT ![r] = "blogListSelect"]
    /\ UNCHANGED <<loc, resp, donationVars, accountVars, blogVars, volunteerVars, startVars>>

\* const [blogs] = await pool.query('SELECT * FROM blogs ORDER BY date DESC'),
\* refused while the table does not exist; the rows are given as a set.
BlogListSelect(r) ==
    /\ process = "running" /\ pc[r] = "blogListSelect"
    /\ IF "blogs" \in tables
       THEN /\ Reply(r, [status |-> 200, body |-> {FormattedBlog(b) : b \in blogs}])
            /\ loc' = loc
       ELSE /\ loc' = [loc EXCEPT ![r].err = "ER_NO_SUCH_TABLE"]
            /\ Reply(r, ErrorResp(500, "Failed to fetch blogs"))
    /\ UNCHANGED <<req, donationVars, accountVars, blogVars, volunteerVars, startVars>>

NextStartup ==
    \/ DbGetConnection \/ DbQuery \/ Listen
    \/ \E r \in StartReq : HealthReceive(r) \/ BlogListReceive(r) \/ BlogListSelect(r)

SpecStartup == InitStartup /\ [][NextStartup]_vars

\* A handler of request r takes a step: it issues a query or sends a response.
Handles(r) == pc'[r] # pc[r] \/ resp'[r] # resp[r]

\* C13: if the connectivity check or a schema statement of
\* initializeDatabase fails, the process exits; and no handler issues a query
\* or sends a response in a process whose database initialisation has not
\* completed successfully.
C13_FailFastStartup ==
    [][/\ dbInit'.at = "failed" => process' = "exited"
       /\ \A r \in DOMAIN pc : Handles(r) => dbInit.at = "done"]_vars

====
